---- MODULE Spec2Model ----
(***************************************************************************)
(* Firebase Admin Console: the user-session and token-issuance workflow.   *)
(*                                                                         *)
(* FirebaseUserService (firebase_service.py) wraps the identity SDK and    *)
(* the REST sign-in endpoint; FirebaseAdminCLI (cli_interface.py) is the   *)
(* interactive loop that owns the session cache (users, filtered_users).   *)
(*                                                                         *)
(* Python strings are sequences of one-character strings, so that len(),   *)
(* lower(), strip() and the substring test are computed, not assumed.      *)
(* Two specifications: Spec is FirebaseAdminCLI.run(), one action per      *)
(* prompt the operator answers; ServiceSpec calls the methods of           *)
(* FirebaseUserService directly, as a library client would.                *)
(***************************************************************************)
EXTENDS Integers, Sequences, FiniteSets, TLC

VARIABLES
    dir,             \* the provider's user directory, in listing order
    users,           \* FirebaseAdminCLI.users
    filtered_users,  \* FirebaseAdminCLI.filtered_users
    pc,              \* the prompt run() is blocked on
    uid,             \* local uid of the operation in progress
    new_password,    \* local new_password of update_user_password
    email,           \* local email of test_password_login
    password,        \* local password of test_password_login
    confirmedUid,    \* history: uid the operator said yes to in this invocation
    okMutations,     \* history: successful update calls of this invocation
    inp,             \* history: the operator's entry consumed by the last step
    calls,           \* history: provider calls made by the last step, in order
    fetch,           \* history: the listing served in the last step, and the session before it
    out,             \* history: what the last step printed, in order
    ret              \* history: what the last service call returned

vars == <<dir, users, filtered_users, pc, uid, new_password, email, password,
          confirmedUid, okMutations, inp, calls, fetch, out, ret>>

cliLocals == <<uid, new_password, email, password>>
session == <<users, filtered_users>>

-----------------------------------------------------------------------------
(* Python str, as a sequence of characters *)

UpperChars == <<"A","B","C","D","E","F","G","H","I","J","K","L","M",
                "N","O","P","Q","R","S","T","U","V","W","X","Y","Z">>
LowerChars == <<"a","b","c","d","e","f","g","h","i","j","k","l","m",
                "n","o","p","q","r","s","t","u","v","w","x","y","z">>
DigitChars == <<"0","1","2","3","4","5","6","7","8","9">>
Range(f) == {f[i] : i \in DOMAIN f}

\* str.lower() of one character
LowerChar(c) ==
    IF c \in Range(UpperChars)
    THEN LowerChars[CHOOSE i \in DOMAIN UpperChars : UpperChars[i] = c]
    ELSE c

\* str.lower()
Lower(s) == [i \in 1..Len(s) |-> LowerChar(s[i])]

\* str.strip() leaves nothing: every character is whitespace
Whitespace == {" ", "\t", "\n"}
IsBlank(s) == \A i \in 1..Len(s) : s[i] \in Whitespace

\* str.strip()
Strip(s) ==
    LET kept == {i \in DOMAIN s : s[i] \notin Whitespace} IN
    IF kept = {} THEN <<>>
    ELSE SubSeq(s, CHOOSE i \in kept : \A j \in kept : i <= j,
                   CHOOSE i \in kept : \A j \in kept : j <= i)

\* Python's  needle in hay  on strings
Contains(hay, needle) ==
    \E i \in 0..(Len(hay) - Len(needle)) :
        SubSeq(hay, i + 1, i + Len(needle)) = needle

\* Python truthiness of a str
Truthy(s) == Len(s) > 0

None == [tag |-> "None"]
Str(s) == [tag |-> "str", s |-> s]

back == <<"b","a","c","k">>
NoEmail == <<"N","o"," ","e","m","a","i","l">>
NoName == <<"N","o"," ","n","a","m","e">>

-----------------------------------------------------------------------------
(* The identity provider (external): its directory and its listing pages *)

U1 == <<"u","1">>
U2 == <<"u","2">>
U3 == <<"u","3">>

\* A provider record; <<>> stands for an absent (None) or empty field.
ProviderUser(u, e, n, v, d) ==
    [uid |-> u, email |-> e, display_name |-> n, email_verified |-> v,
     disabled |-> d, creation_timestamp |-> 1, last_sign_in_timestamp |-> 0]

InitialDirectory ==
    << ProviderUser(U1, <<"a","l","@","x">>, <<"A","l">>, TRUE, FALSE),
       ProviderUser(U2, <<>>, <<>>, FALSE, TRUE),
       ProviderUser(U3, <<"B","O","B","@","y">>, <<"B","o","b">>, TRUE, FALSE) >>

\* the directories a session may start against: three accounts, or none
Directories == {InitialDirectory, <<>>}

MaxPages == 2

RECURSIVE Flatten(_)
Flatten(pages) ==
    IF pages = <<>> THEN <<>> ELSE Head(pages) \o Flatten(Tail(pages))

\* Every way the provider may cut the listing d into 1..MaxPages pages
\* (a page may be empty; the page size is the provider's choice).
RECURSIVE Cuts(_, _)
Cuts(d, n) ==
    IF n = 1 THEN {<<d>>}
    ELSE UNION { { <<SubSeq(d, 1, k)>> \o rest : rest \in Cuts(SubSeq(d, k + 1, Len(d)), n - 1) }
                 : k \in 0..Len(d) }

Paginations(d) == UNION { Cuts(d, n) : n \in 1..MaxPages }

-----------------------------------------------------------------------------
(* FirebaseUserService *)

\* the dictionary get_all_users and get_user_by_uid build from a provider record
UserData(user) ==
    [uid |-> user.uid,
     email |-> IF Truthy(user.email) THEN user.email ELSE NoEmail,
     display_name |-> IF Truthy(user.display_name) THEN user.display_name ELSE NoName,
     email_verified |-> user.email_verified,
     disabled |-> user.disabled,
     creation_time |-> user.creation_timestamp,
     last_sign_in |-> user.last_sign_in_timestamp]

\* for user in page.users: users.append(user_data)
AppendPage(acc, page) == acc \o [i \in 1..Len(page) |-> UserData(page[i])]

Raised(msg) == [raised |-> TRUE, value |-> <<>>, error |-> msg]
Returned(v) == [raised |-> FALSE, value |-> v, error |-> <<>>]

\* The while loop of get_all_users with page k in hand and acc = users so
\* far.  failAt = K > 0: the provider's request for page K raises.
\* requests counts list_users and the get_next_page calls that go to the
\* provider; advances counts the get_next_page calls.
RECURSIVE DrainPages(_, _, _, _)
DrainPages(pages, failAt, k, acc) ==
    LET acc2 == AppendPage(acc, pages[k]) IN
    IF k = Len(pages)
    THEN Returned(acc2) @@ [requests |-> k, advances |-> k]
    ELSE IF failAt = k + 1
    THEN Raised("Failed to retrieve users") @@ [requests |-> k + 1, advances |-> k]
    ELSE DrainPages(pages, failAt, k + 1, acc2)

\* get_all_users returning what it had gathered when a page request raised
GetAllUsersPartial(pages, failAt) ==
    IF failAt = 0
    THEN DrainPages(pages, 0, 1, <<>>)
    ELSE Returned(AppendPage(<<>>, Flatten(SubSeq(pages, 1, failAt - 1))))
             @@ [requests |-> failAt, advances |-> failAt - 1]

\* get_all_users reading the first page only
GetAllUsersFirstPage(pages, failAt) ==
    IF failAt = 1
    THEN Raised("Failed to retrieve users") @@ [requests |-> 1, advances |-> 0]
    ELSE Returned(AppendPage(<<>>, pages[1])) @@ [requests |-> 1, advances |-> 0]

get_all_users(pages, failAt) ==
    IF failAt = 1
    THEN Raised("Failed to retrieve users") @@ [requests |-> 1, advances |-> 0]
    ELSE DrainPages(pages, failAt, 1, <<>>)

\* search_users without its early return for a blank query
SearchUsersNoBlankCheck(query, us) ==
    LET query_lower == Lower(query)
        Match(user) ==
            \/ Contains(Lower(user.email), query_lower)
            \/ Contains(Lower(user.display_name), query_lower)
    IN SelectSeq(us, Match)

\* search_users requiring the query in both fields
SearchUsersBothFields(query, us) ==
    IF IsBlank(query)
    THEN us
    ELSE LET query_lower == Lower(query)
             Match(user) ==
                 /\ Contains(Lower(user.email), query_lower)
                 /\ Contains(Lower(user.display_name), query_lower)
         IN SelectSeq(us, Match)

\* search_users
search_users(query, us) ==
    IF IsBlank(query)
    THEN us
    ELSE LET query_lower == Lower(query)
             Match(user) ==
                 \/ Contains(Lower(user.email), query_lower)
                 \/ Contains(Lower(user.display_name), query_lower)
         IN SelectSeq(us, Match)

HasUid(d, u) == \E i \in DOMAIN d : d[i].uid = u

\* The provider's answer to a call about uid u: what the environment chose,
\* unless the directory has no such uid.
Answer(d, u, outcome) == IF HasUid(d, u) THEN outcome ELSE "not_found"

\* auth.update_user(uid, display_name=...) accepted: only that field changes
SetDisplayName(d, u, n) ==
    [i \in DOMAIN d |-> IF d[i].uid = u THEN [d[i] EXCEPT !.display_name = n] ELSE d[i]]

UpdateCall(u, field, v, ans) ==
    [api |-> "update_user", uid |-> u, field |-> field, value |-> v,
     answer |-> ans, ok |-> ans = "ok"]

\* update_user_password without its try/except: the provider's exception
\* reaches the caller
UpdatePasswordUncaught(d, u, pw, outcome) ==
    LET ans == Answer(d, u, outcome) IN
    [value |-> ans = "ok",
     raised |-> ans # "ok",
     dir |-> d,
     calls |-> <<UpdateCall(u, "password", pw, ans)>>,
     printed |-> <<>>]

\* update_user_password; the provider keeps no readable password, so an
\* accepted update leaves the directory's listed fields as they were
update_user_password(d, u, pw, outcome) ==
    LET ans == Answer(d, u, outcome) IN
    [value |-> ans = "ok",
     raised |-> FALSE,
     dir |-> d,
     calls |-> <<UpdateCall(u, "password", pw, ans)>>,
     printed |-> IF ans = "ok" THEN <<>> ELSE <<"Error updating password">>]

\* update_user_display_name returning True from its except branch too
UpdateDisplayNameAlwaysTrue(d, u, n, outcome) ==
    LET ans == Answer(d, u, outcome) IN
    [value |-> TRUE,
     raised |-> FALSE,
     dir |-> IF ans = "ok" THEN SetDisplayName(d, u, n) ELSE d,
     calls |-> <<UpdateCall(u, "display_name", n, ans)>>,
     printed |-> IF ans = "ok" THEN <<>> ELSE <<"Error updating display name">>]

\* update_user_display_name
update_user_display_name(d, u, n, outcome) ==
    LET ans == Answer(d, u, outcome) IN
    [value |-> ans = "ok",
     raised |-> FALSE,
     dir |-> IF ans = "ok" THEN SetDisplayName(d, u, n) ELSE d,
     calls |-> <<UpdateCall(u, "display_name", n, ans)>>,
     printed |-> IF ans = "ok" THEN <<>> ELSE <<"Error updating display name">>]

GetUserCall(u, ans) == [api |-> "get_user", uid |-> u, answer |-> ans, ok |-> ans = "ok"]

\* get_user_by_uid
get_user_by_uid(d, u, outcome) ==
    LET ans == Answer(d, u, outcome) IN
    [value |-> IF ans = "ok"
               THEN Str(UserData(d[CHOOSE i \in DOMAIN d : d[i].uid = u]))
               ELSE None,
     dir |-> d,
     calls |-> <<GetUserCall(u, ans)>>,
     printed |-> IF ans = "ok" THEN <<>> ELSE <<"Error getting user">>]

\* the (success, token, error_message) tuple of the issuance methods
Result(success, token, error) == [success |-> success, token |-> token, error |-> error]

CustomToken(u) == <<"c","t",":">> \o u
MintCall(u, outcome) ==
    [api |-> "create_custom_token", uid |-> u, answer |-> outcome, ok |-> outcome = "ok"]

\* generate_custom_token: create_custom_token signs for whatever uid it is given
generate_custom_token(u, mint) ==
    [value |-> IF mint = "ok"
               THEN Result(TRUE, Str(CustomToken(u)), None)
               ELSE Result(FALSE, None, Str(<<"Failed to generate custom token: ", mint>>)),
     calls |-> <<MintCall(u, mint)>>]

\* test_user_login_with_admin_sdk minting without looking the uid up
AdminSdkLoginMintsUnchecked(d, u, outcome, mint) ==
    LET gen == generate_custom_token(u, mint)
    IN [value |-> IF ~gen.value.success
                  THEN Result(FALSE, None, gen.value.error)
                  ELSE Result(TRUE, gen.value.token, None),
        calls |-> gen.calls]

\* test_user_login_with_admin_sdk
test_user_login_with_admin_sdk(d, u, outcome, mint) ==
    LET ans == Answer(d, u, outcome)
        gen == generate_custom_token(u, mint)
    IN IF ans # "ok"
       THEN [value |-> Result(FALSE, None, Str(<<"Admin SDK login test failed: ", ans>>)),
             calls |-> <<GetUserCall(u, ans)>>]
       ELSE [value |-> IF ~gen.value.success
                       THEN Result(FALSE, None, gen.value.error)
                       ELSE Result(TRUE, gen.value.token, None),
             calls |-> <<GetUserCall(u, ans)>> \o gen.calls]

-----------------------------------------------------------------------------
(* The REST identity endpoint (external) *)

\* dict.get(key, default) on a parsed JSON object (a function on its keys)
Get(doc, key, default) == IF key \in DOMAIN doc THEN doc[key] ELSE default
EmptyDict == <<>>

IdToken == <<"i","d","t">>

\* what requests.post can do: raise, or answer with a status and a body
\* that response.json() either parses or raises on
PostRaises(why) == [raises |-> TRUE, why |-> why]
Response(status, json) == [raises |-> FALSE, status_code |-> status, json |-> json]
BadJson == [parses |-> FALSE]
Json(doc) == [parses |-> TRUE, doc |-> doc]

HttpAnswers ==
    { PostRaises("timeout"),
      Response(200, Json([idToken |-> Str(IdToken), refreshToken |-> Str(<<"r">>)])),
      Response(200, Json(EmptyDict)),
      Response(200, Json([idToken |-> None])),
      Response(200, BadJson),
      Response(400, Json([error |-> [message |-> Str(<<"INVALID_PASSWORD">>)]])),
      Response(400, Json([error |-> EmptyDict])),
      Response(400, Json(EmptyDict)),
      Response(400, Json([error |-> [message |-> None]])),
      Response(500, BadJson) }

PostCall(endpoint, key, body, http) ==
    [api |-> "requests.post", endpoint |-> endpoint, key |-> key, body |-> body,
     answer |-> IF http.raises THEN http.why ELSE "response", ok |-> ~http.raises,
     http |-> http]

\* The shared tail of the two REST methods: from  response = requests.post(...)
\* to the return, inside  try/except Exception  with failure prefix  prefix.
RestOutcome(http, prefix) ==
    IF http.raises
    THEN Result(FALSE, None, Str(<<prefix, http.why>>))
    ELSE IF ~http.json.parses
    THEN Result(FALSE, None, Str(<<prefix, "json">>))
    ELSE IF http.status_code = 200
    THEN Result(TRUE, Get(http.json.doc, "idToken", None), None)
    ELSE Result(FALSE, None, Get(Get(http.json.doc, "error", EmptyDict), "message", Str(<<"Unknown error">>)))

\* test_login_with_api_key; project_id is what _get_project_id returns
test_login_with_api_key(e, p, api_key, project_id, http) ==
    IF project_id = None
    THEN [value |-> Result(FALSE, None, Str(<<"Could not determine Firebase project ID">>)),
          calls |-> <<>>]
    ELSE [value |-> RestOutcome(http, "Login test failed: "),
          calls |-> <<PostCall("signInWithPassword", Str(api_key),
                               [email |-> e, password |-> p, returnSecureToken |-> TRUE], http)>>]

\* _get_api_key
get_api_key == None

\* exchange_custom_token_for_id_token
exchange_custom_token_for_id_token(custom_token, project_id, http) ==
    IF project_id = None
    THEN [value |-> Result(FALSE, None, Str(<<"Could not determine Firebase project ID">>)),
          calls |-> <<>>]
    ELSE [value |-> RestOutcome(http, "Token exchange failed: "),
          calls |-> <<PostCall("signInWithCustomToken", get_api_key,
                               [token |-> custom_token, returnSecureToken |-> TRUE], http)>>]

ProjectIds == {None, Str(<<"p","r","j">>)}

-----------------------------------------------------------------------------
(* What the environment can choose *)

UnknownUid == <<"u","9">>
\* a prompt that hands the program the typed line as it is
PromptAskRaw(typed) == typed

\* rich's Prompt.ask hands the program the typed line without the
\* whitespace around it
PromptAsk(typed) == Strip(typed)

\* what the operator may type, and what the program is handed for it
UidTyped ==
    {U1, U2, U3, UnknownUid, <<>>, back, <<"B","A","C","K">>, <<"B","a","c","k">>,
     <<" ">> \o U1 \o <<" ">>}
UidInputs == {PromptAsk(t) : t \in UidTyped}
NameTyped == {<<" ","Z">>, <<>>, <<" "," ">>, back, <<"B","A","C","K">>}
PasswordTyped ==
    { <<"a","b","c">>,
      <<"A","b","c","1","2","3","!">>,
      <<"a","b","c","d","e","f","g","h">>,
      <<"A","b","c","1","2","3","4","5","!">>,
      <<"~","~","~","~","~","~","~","~">>,
      <<" ","a","b","c","d","e","f","g","h"," ">>,
      back,
      <<"B","a","c","k">> }
PasswordInputs == {PromptAsk(t) : t \in PasswordTyped}
QueriesTyped == {<<>>, <<" "," ">>, <<"A","L">>, <<"b","o","b">>, <<"n","o"," ">>, <<"q">>}
Queries == {PromptAsk(t) : t \in QueriesTyped}
EmailInputs == {PromptAsk(t) : t \in {<<"a","l","@","x">>, <<"B","A","C","K">>}}
LoginPasswordInputs == {PromptAsk(t) : t \in {<<"p","w">>, back}}
ApiKeyInputs == {PromptAsk(t) : t \in {<<"k">>, <<"B","a","c","k">>}}
TokenInputs == {CustomToken(U1), <<>>}

UpdateOutcomes == {"ok", "rejected", "unavailable"}
GetOutcomes == {"ok", "not_found", "unavailable"}
MintOutcomes == {"ok", "sign_error"}

\* the operator's entry at a prompt
Text(prompt, t) == [prompt |-> prompt, text |-> t, yes |-> FALSE]
YesNo(prompt, b) == [prompt |-> prompt, text |-> IF b THEN <<"y">> ELSE <<"n">>, yes |-> b]
NoInput == [prompt |-> "none", text |-> <<>>, yes |-> FALSE]

NoFetch == [served |-> FALSE]
Served(before, pages, failAt, r) ==
    [served |-> TRUE, before |-> before, pages |-> pages, failAt |-> failAt, result |-> r]
NoRet == [fn |-> "none"]
Ret(fn, args, v) == [fn |-> fn, args |-> args, value |-> v]

\* the listing calls get_all_users made: list_users, then one get_next_page
\* per advance; only the last call of a raising run failed
PageCalls(r) ==
    [i \in 1..(1 + r.advances) |->
        LET failed == r.raised /\ i = 1 + r.advances IN
        [api |-> IF i = 1 THEN "list_users" ELSE "get_next_page",
         answer |-> IF failed THEN "unavailable" ELSE "ok",
         ok |-> ~failed]]

-----------------------------------------------------------------------------
(* FirebaseAdminCLI *)

\* one printed line or panel
Line(text) == [panel |-> "", level |-> text]

\* show_password_strength: the score and the level it prints
SpecialChars == {"!","@","#","$","%","^","&","*","(",")","_","+","-","=",
                 "[","]","{","}","|",";",":",",",".","<",">","?"}
AnyChar(s, class) == \E i \in DOMAIN s : s[i] \in class
B2N(b) == IF b THEN 1 ELSE 0
Min(a, b) == IF a < b THEN a ELSE b

\* the score without the criterion for 12 characters and more
StrengthScoreNoLongBonus(pw) ==
    B2N(Len(pw) >= 8)
    + B2N(AnyChar(pw, Range(UpperChars))) + B2N(AnyChar(pw, Range(LowerChars)))
    + B2N(AnyChar(pw, Range(DigitChars))) + B2N(AnyChar(pw, SpecialChars))

strength_score(pw) ==
    B2N(Len(pw) >= 8) + B2N(Len(pw) >= 12)
    + B2N(AnyChar(pw, Range(UpperChars))) + B2N(AnyChar(pw, Range(LowerChars)))
    + B2N(AnyChar(pw, Range(DigitChars))) + B2N(AnyChar(pw, SpecialChars))

strength_levels == <<"Weak", "Medium", "Strong">>
strength_text(pw) == strength_levels[Min(strength_score(pw) \div 2, 2) + 1]

\* the panel show_password_strength prints; one filled dot of the bar per
\* unit of  strength_score // 2, three dots in all
StrengthPanel(pw) ==
    [panel |-> "Password Analysis", level |-> strength_text(pw),
     score |-> strength_score(pw), dots |-> Min(strength_score(pw) \div 2, 3),
     length |-> Len(pw)]

\* FirebaseAdminCLI.__init__, before run()
Init ==
    /\ dir \in Directories
    /\ users = <<>>
    /\ filtered_users = <<>>
    /\ pc = "start"
    /\ uid = <<>>
    /\ new_password = <<>>
    /\ email = <<>>
    /\ password = <<>>
    /\ confirmedUid = None
    /\ okMutations = 0
    /\ inp = NoInput
    /\ calls = <<>>
    /\ fetch = NoFetch
    /\ out = <<>>
    /\ ret = NoRet

\* load_users keeping the previous cache when the fetch raises
LoadUsersKeep(old, pages, failAt) ==
    LET r == get_all_users(pages, failAt) IN
    IF ~r.raised
    THEN [users |-> r.value, filtered_users |-> r.value,
          out |-> <<Line("Loading users from Firebase..."), Line("Loaded users successfully!")>>,
          calls |-> PageCalls(r), fetch |-> Served(old, pages, failAt, r)]
    ELSE [users |-> old.users, filtered_users |-> old.filtered_users,
          out |-> <<Line("Loading users from Firebase..."), Line("Error loading users: Failed to retrieve users")>>,
          calls |-> PageCalls(r), fetch |-> Served(old, pages, failAt, r)]

\* load_users replacing users only and leaving the filtered view as it was
LoadUsersStaleFilter(old, pages, failAt) ==
    LET r == get_all_users(pages, failAt) IN
    IF ~r.raised
    THEN [users |-> r.value, filtered_users |-> old.filtered_users,
          out |-> <<Line("Loading users from Firebase..."), Line("Loaded users successfully!")>>,
          calls |-> PageCalls(r), fetch |-> Served(old, pages, failAt, r)]
    ELSE [users |-> <<>>, filtered_users |-> <<>>,
          out |-> <<Line("Loading users from Firebase..."), Line("Error loading users: Failed to retrieve users")>>,
          calls |-> PageCalls(r), fetch |-> Served(old, pages, failAt, r)]

\* load_users; old is the session before the call
load_users(old, pages, failAt) ==
    LET r == get_all_users(pages, failAt) IN
    IF ~r.raised
    THEN [users |-> r.value, filtered_users |-> r.value,
          out |-> <<Line("Loading users from Firebase..."), Line("Loaded users successfully!")>>,
          calls |-> PageCalls(r), fetch |-> Served(old, pages, failAt, r)]
    ELSE [users |-> <<>>, filtered_users |-> <<>>,
          out |-> <<Line("Loading users from Firebase..."), Line("Error loading users: Failed to retrieve users")>>,
          calls |-> PageCalls(r), fetch |-> Served(old, pages, failAt, r)]

Session == [users |-> users, filtered_users |-> filtered_users]

\* the  for u in self.users  lookup of the target prompts
Found(us, u) == \E i \in DOMAIN us : us[i].uid = u

\* uid == 'back', without lower()
IsBackExact(t) == t = back

\* uid.lower() == 'back'
IsBack(t) == Lower(t) = back

\* run(): the initial load_users() before the menu loop
Start ==
    /\ pc = "start"
    /\ \E pages \in Paginations(dir) : \E failAt \in 0..Len(pages) :
         LET l == load_users(Session, pages, failAt) IN
         /\ users' = l.users
         /\ filtered_users' = l.filtered_users
         /\ out' = l.out
         /\ calls' = l.calls
         /\ fetch' = l.fetch
    /\ pc' = "menu"
    /\ inp' = NoInput
    /\ ret' = NoRet
    /\ UNCHANGED <<dir, cliLocals, confirmedUid, okMutations>>

\* A menu choice that only moves to the first prompt of an operation.
Enter(choice, prompt) ==
    /\ pc = "menu"
    /\ pc' = prompt
    /\ inp' = Text("menu", <<choice>>)
    /\ confirmedUid' = None
    /\ okMutations' = 0
    /\ calls' = <<>>
    /\ fetch' = NoFetch
    /\ out' = <<>>
    /\ ret' = NoRet
    /\ UNCHANGED <<dir, session, cliLocals>>

ChooseSearch == Enter("1", "search_query")
ChooseView == Enter("3", "view_target")
ChoosePassword == Enter("4", "pw_target")
ChooseName == Enter("5", "name_target")
ChooseTokens == Enter("6", "token_method")

\* choice "2": load_users()
ChooseRefresh ==
    /\ pc = "menu"
    /\ \E pages \in Paginations(dir) : \E failAt \in 0..Len(pages) :
         LET l == load_users(Session, pages, failAt) IN
         /\ users' = l.users
         /\ filtered_users' = l.filtered_users
         /\ out' = l.out
         /\ calls' = l.calls
         /\ fetch' = l.fetch
    /\ pc' = "continue"
    /\ inp' = Text("menu", <<"2">>)
    /\ ret' = NoRet
    /\ UNCHANGED <<dir, cliLocals, confirmedUid, okMutations>>

\* choice "7": show all users
ChooseShowAll ==
    /\ pc = "menu"
    /\ filtered_users' = users
    /\ pc' = "continue"
    /\ inp' = Text("menu", <<"7">>)
    /\ out' = <<Line("table")>>
    /\ calls' = <<>>
    /\ fetch' = NoFetch
    /\ ret' = NoRet
    /\ UNCHANGED <<dir, users, cliLocals, confirmedUid, okMutations>>

\* choice "8": leave the loop
ChooseExit ==
    /\ pc = "menu"
    /\ pc' = "exited"
    /\ inp' = Text("menu", <<"8">>)
    /\ out' = <<Line("Goodbye!")>>
    /\ calls' = <<>>
    /\ fetch' = NoFetch
    /\ ret' = NoRet
    /\ UNCHANGED <<dir, session, cliLocals, confirmedUid, okMutations>>

\* "Press Enter to continue..."
PressEnter ==
    /\ pc = "continue"
    /\ pc' = "menu"
    /\ inp' = Text("continue", <<>>)
    /\ out' = <<>>
    /\ calls' = <<>>
    /\ fetch' = NoFetch
    /\ ret' = NoRet
    /\ UNCHANGED <<dir, session, cliLocals, confirmedUid, okMutations>>

\* FirebaseAdminCLI.search_users
SearchUsers ==
    /\ pc = "search_query"
    /\ \E query \in Queries :
         /\ inp' = Text("query", query)
         /\ filtered_users' = IF IsBlank(query) THEN users ELSE search_users(query, users)
    /\ pc' = "continue"
    /\ out' = <<Line("table")>>
    /\ calls' = <<>>
    /\ fetch' = NoFetch
    /\ ret' = NoRet
    /\ UNCHANGED <<dir, users, cliLocals, confirmedUid, okMutations>>

\* view_user_details
ViewUserDetails ==
    /\ pc = "view_target"
    /\ \E u \in UidInputs :
         /\ inp' = Text("uid", u)
         /\ out' = IF IsBack(u) THEN <<>>
                   ELSE IF ~Found(users, u) THEN <<Line("User not found!")>>
                   ELSE <<Line("details")>>
    /\ pc' = "continue"
    /\ calls' = <<>>
    /\ fetch' = NoFetch
    /\ ret' = NoRet
    /\ UNCHANGED <<dir, session, cliLocals, confirmedUid, okMutations>>

\* The uid prompt shared by update_user_password, update_user_name and
\* generate_custom_token: 'back' returns, an unknown uid asks again, a
\* cached uid shows the details and moves to the yes/no gate.
\* A uid prompt that gives the operation up when the uid is not known, as
\* view_user_details does
AwaitTargetAborts(here, gate, returnTo) ==
    /\ pc = here
    /\ \E u \in UidInputs :
         /\ inp' = Text("uid", u)
         /\ IF IsBack(u)
            THEN /\ pc' = returnTo
                 /\ uid' = <<>>
                 /\ out' = <<>>
            ELSE IF ~Found(users, u)
            THEN /\ pc' = returnTo
                 /\ uid' = <<>>
                 /\ out' = <<Line("User not found!")>>
            ELSE /\ pc' = gate
                 /\ uid' = u
                 /\ out' = <<Line("details")>>
    /\ calls' = <<>>
    /\ fetch' = NoFetch
    /\ ret' = NoRet
    /\ UNCHANGED <<dir, session, new_password, email, password, confirmedUid, okMutations>>

\* the uid prompt looking the uid up in the list on display
AwaitTargetInView(here, gate, returnTo) ==
    /\ pc = here
    /\ \E u \in UidInputs :
         /\ inp' = Text("uid", u)
         /\ IF IsBack(u)
            THEN /\ pc' = returnTo
                 /\ uid' = <<>>
                 /\ out' = <<>>
            ELSE IF ~Found(filtered_users, u)
            THEN /\ pc' = here
                 /\ uid' = u
                 /\ out' = <<Line("User not found!")>>
            ELSE /\ pc' = gate
                 /\ uid' = u
                 /\ out' = <<Line("details")>>
    /\ calls' = <<>>
    /\ fetch' = NoFetch
    /\ ret' = NoRet
    /\ UNCHANGED <<dir, session, new_password, email, password, confirmedUid, okMutations>>

AwaitTarget(here, gate, returnTo) ==
    /\ pc = here
    /\ \E u \in UidInputs :
         /\ inp' = Text("uid", u)
         /\ IF IsBack(u)
            THEN /\ pc' = returnTo
                 /\ uid' = <<>>
                 /\ out' = <<>>
            ELSE IF ~Found(users, u)
            THEN /\ pc' = here
                 /\ uid' = u
                 /\ out' = <<Line("User not found!")>>
            ELSE /\ pc' = gate
                 /\ uid' = u
                 /\ out' = <<Line("details")>>
    /\ calls' = <<>>
    /\ fetch' = NoFetch
    /\ ret' = NoRet
    /\ UNCHANGED <<dir, session, new_password, email, password, confirmedUid, okMutations>>

\* A gate that goes on to the next prompt whatever the answer
GateIgnoresNo(here, onYes, returnTo) ==
    /\ pc = here
    /\ \E yes \in BOOLEAN :
         /\ inp' = YesNo("confirm", yes)
         /\ pc' = onYes
         /\ confirmedUid' = IF yes THEN Str(uid) ELSE confirmedUid
         /\ UNCHANGED uid
    /\ calls' = <<>>
    /\ fetch' = NoFetch
    /\ out' = <<>>
    /\ ret' = NoRet
    /\ UNCHANGED <<dir, session, new_password, email, password, okMutations>>

\* A yes/no gate that, on no, returns and, on yes, moves to the next prompt
\* without calling the provider.
Gate(here, onYes, returnTo) ==
    /\ pc = here
    /\ \E yes \in BOOLEAN :
         /\ inp' = YesNo("confirm", yes)
         /\ IF yes
            THEN /\ pc' = onYes
                 /\ confirmedUid' = Str(uid)
                 /\ UNCHANGED uid
            ELSE /\ pc' = returnTo
                 /\ uid' = <<>>
                 /\ UNCHANGED confirmedUid
    /\ calls' = <<>>
    /\ fetch' = NoFetch
    /\ out' = <<>>
    /\ ret' = NoRet
    /\ UNCHANGED <<dir, session, new_password, email, password, okMutations>>

PwTarget == AwaitTarget("pw_target", "pw_confirm", "continue")
PwConfirm == Gate("pw_confirm", "pw_new", "continue")

\* update_user_password: the "Enter new password" prompt
PwNew ==
    /\ pc = "pw_new"
    /\ \E p \in PasswordInputs :
         /\ inp' = Text("new_password", p)
         /\ IF IsBack(p)
            THEN /\ pc' = "continue"
                 /\ uid' = <<>>
                 /\ new_password' = <<>>
                 /\ out' = <<>>
            ELSE /\ pc' = "pw_confirm_password"
                 /\ new_password' = p
                 /\ out' = <<StrengthPanel(p)>>
                 /\ UNCHANGED uid
    /\ calls' = <<>>
    /\ fetch' = NoFetch
    /\ ret' = NoRet
    /\ UNCHANGED <<dir, session, email, password, confirmedUid, okMutations>>

\* update_user_password without the minimum-length check
SubmitPasswordNoLengthCheck(c, outcome) ==
    LET r == update_user_password(dir, uid, new_password, outcome) IN
    IF IsBack(c)
    THEN [pc |-> "continue", done |-> TRUE, called |-> FALSE, r |-> r, out |-> <<>>]
    ELSE IF new_password # c
    THEN [pc |-> "pw_retry", done |-> FALSE, called |-> FALSE, r |-> r,
          out |-> <<Line("Passwords don't match! Please try again.")>>]
    ELSE IF r.value
    THEN [pc |-> "continue", done |-> TRUE, called |-> TRUE, r |-> r,
          out |-> <<Line("Password updated successfully!")>>]
    ELSE [pc |-> "pw_retry", done |-> FALSE, called |-> TRUE, r |-> r,
          out |-> <<Line(r.printed[1]), Line("Failed to update password!")>>]

\* update_user_password refusing a password the analysis calls Weak
SubmitPasswordBlocksWeak(c, outcome) ==
    LET r == update_user_password(dir, uid, new_password, outcome) IN
    IF IsBack(c)
    THEN [pc |-> "continue", done |-> TRUE, called |-> FALSE, r |-> r, out |-> <<>>]
    ELSE IF new_password # c
    THEN [pc |-> "pw_retry", done |-> FALSE, called |-> FALSE, r |-> r,
          out |-> <<Line("Passwords don't match! Please try again.")>>]
    ELSE IF Len(new_password) < 8 \/ strength_text(new_password) = "Weak"
    THEN [pc |-> "pw_retry", done |-> FALSE, called |-> FALSE, r |-> r,
          out |-> <<Line("Password must be at least 8 characters long!")>>]
    ELSE IF r.value
    THEN [pc |-> "continue", done |-> TRUE, called |-> TRUE, r |-> r,
          out |-> <<Line("Password updated successfully!")>>]
    ELSE [pc |-> "pw_retry", done |-> FALSE, called |-> TRUE, r |-> r,
          out |-> <<Line(r.printed[1]), Line("Failed to update password!")>>]

\* update_user_password asking for another password after a successful update
SubmitPasswordGoesOn(c, outcome) ==
    LET r == update_user_password(dir, uid, new_password, outcome) IN
    IF IsBack(c)
    THEN [pc |-> "continue", done |-> TRUE, called |-> FALSE, r |-> r, out |-> <<>>]
    ELSE IF new_password # c
    THEN [pc |-> "pw_retry", done |-> FALSE, called |-> FALSE, r |-> r,
          out |-> <<Line("Passwords don't match! Please try again.")>>]
    ELSE IF Len(new_password) < 8
    THEN [pc |-> "pw_retry", done |-> FALSE, called |-> FALSE, r |-> r,
          out |-> <<Line("Password must be at least 8 characters long!")>>]
    ELSE IF r.value
    THEN [pc |-> "pw_retry", done |-> FALSE, called |-> TRUE, r |-> r,
          out |-> <<Line("Password updated successfully!")>>]
    ELSE [pc |-> "pw_retry", done |-> FALSE, called |-> TRUE, r |-> r,
          out |-> <<Line(r.printed[1]), Line("Failed to update password!")>>]

\* The step of update_user_password from the "Confirm new password" entry c
\* to the next prompt, when the provider would answer outcome.
SubmitPassword(c, outcome) ==
    LET r == update_user_password(dir, uid, new_password, outcome) IN
    IF IsBack(c)
    THEN [pc |-> "continue", done |-> TRUE, called |-> FALSE, r |-> r, out |-> <<>>]
    ELSE IF new_password # c
    THEN [pc |-> "pw_retry", done |-> FALSE, called |-> FALSE, r |-> r,
          out |-> <<Line("Passwords don't match! Please try again.")>>]
    ELSE IF Len(new_password) < 8
    THEN [pc |-> "pw_retry", done |-> FALSE, called |-> FALSE, r |-> r,
          out |-> <<Line("Password must be at least 8 characters long!")>>]
    ELSE IF r.value
    THEN [pc |-> "continue", done |-> TRUE, called |-> TRUE, r |-> r,
          out |-> <<Line("Password updated successfully!")>>]
    ELSE [pc |-> "pw_retry", done |-> FALSE, called |-> TRUE, r |-> r,
          out |-> <<Line(r.printed[1]), Line("Failed to update password!")>>]

\* update_user_password: the "Confirm new password" prompt, the checks and
\* the provider call
PwConfirmPassword ==
    /\ pc = "pw_confirm_password"
    /\ \E c \in PasswordInputs : \E outcome \in UpdateOutcomes :
         LET s == SubmitPassword(c, outcome) IN
         /\ inp' = Text("confirm_password", c)
         /\ pc' = s.pc
         /\ out' = s.out
         /\ calls' = IF s.called THEN s.r.calls ELSE <<>>
         /\ dir' = IF s.called THEN s.r.dir ELSE dir
         /\ okMutations' = IF s.called /\ s.r.value THEN okMutations + 1 ELSE okMutations
         /\ uid' = IF s.done THEN <<>> ELSE uid
         /\ new_password' = IF s.done THEN <<>> ELSE new_password
    /\ fetch' = NoFetch
    /\ ret' = NoRet
    /\ UNCHANGED <<session, email, password, confirmedUid>>

\* a retry question that takes no for an answer only to ask the value again
RetryNeverReturns(here, again, returnTo) ==
    /\ pc = here
    /\ \E yes \in BOOLEAN :
         /\ inp' = YesNo("retry", yes)
         /\ pc' = again
    /\ calls' = <<>>
    /\ fetch' = NoFetch
    /\ out' = <<>>
    /\ ret' = NoRet
    /\ UNCHANGED <<dir, session, cliLocals, confirmedUid, okMutations>>

\* "Do you want to try again?": no returns, yes goes to the prompt again
Retry(here, again, returnTo) ==
    /\ pc = here
    /\ \E yes \in BOOLEAN :
         /\ inp' = YesNo("retry", yes)
         /\ pc' = IF yes THEN again ELSE returnTo
         /\ uid' = IF yes THEN uid ELSE <<>>
         /\ new_password' = IF yes THEN new_password ELSE <<>>
    /\ calls' = <<>>
    /\ fetch' = NoFetch
    /\ out' = <<>>
    /\ ret' = NoRet
    /\ UNCHANGED <<dir, session, email, password, confirmedUid, okMutations>>

PwRetry == Retry("pw_retry", "pw_new", "continue")

NameTarget == AwaitTarget("name_target", "name_confirm", "continue")
NameConfirm == Gate("name_confirm", "name_new", "continue")

\* update_user_name after a successful update patching the cached record
\* instead of reloading
RefreshByPatch(n, outcome, pages, failAt) ==
    LET r == update_user_display_name(dir, uid, n, outcome)
        patch(us) == [i \in DOMAIN us |->
                         IF us[i].uid = uid THEN [us[i] EXCEPT !.display_name = n] ELSE us[i]]
    IN
    IF IsBack(n)
    THEN [pc |-> "continue", done |-> TRUE, called |-> FALSE, r |-> r, out |-> <<>>,
          users |-> users, filtered_users |-> filtered_users, calls |-> <<>>, fetch |-> NoFetch]
    ELSE IF r.value
    THEN [pc |-> "continue", done |-> TRUE, called |-> TRUE, r |-> r,
          out |-> <<Line("Display name updated successfully!")>>,
          users |-> patch(users), filtered_users |-> patch(filtered_users),
          calls |-> r.calls, fetch |-> NoFetch]
    ELSE [pc |-> "name_retry", done |-> FALSE, called |-> TRUE, r |-> r,
          out |-> <<Line(r.printed[1]), Line("Failed to update display name!")>>,
          users |-> users, filtered_users |-> filtered_users, calls |-> r.calls, fetch |-> NoFetch]

\* update_user_name refusing an empty name before the provider is called
SubmitNameRejectsEmpty(n, outcome, pages, failAt) ==
    LET r == update_user_display_name(dir, uid, n, outcome)
        l == load_users(Session, pages, failAt)
    IN
    IF IsBack(n)
    THEN [pc |-> "continue", done |-> TRUE, called |-> FALSE, r |-> r, out |-> <<>>,
          users |-> users, filtered_users |-> filtered_users, calls |-> <<>>, fetch |-> NoFetch]
    ELSE IF n = <<>>
    THEN [pc |-> "name_retry", done |-> FALSE, called |-> FALSE, r |-> r,
          out |-> <<Line("Failed to update display name!")>>,
          users |-> users, filtered_users |-> filtered_users, calls |-> <<>>, fetch |-> NoFetch]
    ELSE IF r.value
    THEN [pc |-> "continue", done |-> TRUE, called |-> TRUE, r |-> r,
          out |-> <<Line("Display name updated successfully!")>> \o l.out,
          users |-> l.users, filtered_users |-> l.filtered_users,
          calls |-> r.calls \o l.calls, fetch |-> l.fetch]
    ELSE [pc |-> "name_retry", done |-> FALSE, called |-> TRUE, r |-> r,
          out |-> <<Line(r.printed[1]), Line("Failed to update display name!")>>,
          users |-> users, filtered_users |-> filtered_users, calls |-> r.calls, fetch |-> NoFetch]

\* update_user_name treating a failed reload as a failed update
SubmitNameRetriesFailedReload(n, outcome, pages, failAt) ==
    LET r == update_user_display_name(dir, uid, n, outcome)
        l == load_users(Session, pages, failAt)
    IN
    IF IsBack(n)
    THEN [pc |-> "continue", done |-> TRUE, called |-> FALSE, r |-> r, out |-> <<>>,
          users |-> users, filtered_users |-> filtered_users, calls |-> <<>>, fetch |-> NoFetch]
    ELSE IF r.value /\ l.fetch.result.raised
    THEN [pc |-> "name_retry", done |-> FALSE, called |-> TRUE, r |-> r,
          out |-> l.out \o <<Line("Failed to update display name!")>>,
          users |-> l.users, filtered_users |-> l.filtered_users,
          calls |-> r.calls \o l.calls, fetch |-> l.fetch]
    ELSE IF r.value
    THEN [pc |-> "continue", done |-> TRUE, called |-> TRUE, r |-> r,
          out |-> <<Line("Display name updated successfully!")>> \o l.out,
          users |-> l.users, filtered_users |-> l.filtered_users,
          calls |-> r.calls \o l.calls, fetch |-> l.fetch]
    ELSE [pc |-> "name_retry", done |-> FALSE, called |-> TRUE, r |-> r,
          out |-> <<Line(r.printed[1]), Line("Failed to update display name!")>>,
          users |-> users, filtered_users |-> filtered_users, calls |-> r.calls, fetch |-> NoFetch]

\* The step of update_user_name from the new-name entry n to the next
\* prompt: the update call and, when it succeeds, load_users().
SubmitName(n, outcome, pages, failAt) ==
    LET r == update_user_display_name(dir, uid, n, outcome)
        l == load_users(Session, pages, failAt)
    IN
    IF IsBack(n)
    THEN [pc |-> "continue", done |-> TRUE, called |-> FALSE, r |-> r, out |-> <<>>,
          users |-> users, filtered_users |-> filtered_users, calls |-> <<>>, fetch |-> NoFetch]
    ELSE IF r.value
    THEN [pc |-> "continue", done |-> TRUE, called |-> TRUE, r |-> r,
          out |-> <<Line("Display name updated successfully!")>> \o l.out,
          users |-> l.users, filtered_users |-> l.filtered_users,
          calls |-> r.calls \o l.calls, fetch |-> l.fetch]
    ELSE [pc |-> "name_retry", done |-> FALSE, called |-> TRUE, r |-> r,
          out |-> <<Line(r.printed[1]), Line("Failed to update display name!")>>,
          users |-> users, filtered_users |-> filtered_users, calls |-> r.calls, fetch |-> NoFetch]

\* update_user_name: the "Enter new display name" prompt and what follows
NameNew ==
    /\ pc = "name_new"
    /\ \E typed \in NameTyped : \E outcome \in UpdateOutcomes :
       LET n == PromptAsk(typed) IN
       \E pages \in Paginations(update_user_display_name(dir, uid, n, outcome).dir) :
       \E failAt \in 0..Len(pages) :
         LET s == SubmitName(n, outcome, pages, failAt) IN
         /\ inp' = Text("new_name", n) @@ [typed |-> typed]
         /\ pc' = s.pc
         /\ out' = s.out
         /\ calls' = s.calls
         /\ fetch' = s.fetch
         /\ users' = s.users
         /\ filtered_users' = s.filtered_users
         /\ dir' = IF s.called THEN s.r.dir ELSE dir
         /\ okMutations' = IF s.called /\ s.r.value THEN okMutations + 1 ELSE okMutations
         /\ uid' = IF s.done THEN <<>> ELSE uid
    /\ ret' = NoRet
    /\ UNCHANGED <<new_password, email, password, confirmedUid>>

NameRetry == Retry("name_retry", "name_target", "continue")

\* test_user_login: the method prompt (choices "1", "2", "3")
TokenMethod ==
    /\ pc = "token_method"
    /\ \E method \in {"1", "2", "3"} :
         /\ inp' = Text("method", <<method>>)
         /\ pc' = CASE method = "1" -> "token_target"
                    [] method = "2" -> "login_email"
                    [] method = "3" -> "continue"
    /\ confirmedUid' = None
    /\ calls' = <<>>
    /\ fetch' = NoFetch
    /\ out' = <<>>
    /\ ret' = NoRet
    /\ UNCHANGED <<dir, session, cliLocals, okMutations>>

TokenTarget == AwaitTarget("token_target", "token_confirm", "token_method")

\* `if success and custom_token` / `if success and token`
Shown(res) == res.success /\ res.token # None /\ Truthy(res.token.s)

\* generate_custom_token minting whatever the operator answers at the gate
MintUnasked(yes, outcome, mint) ==
    LET r == test_user_login_with_admin_sdk(dir, uid, outcome, mint) IN
    [pc |-> "token_another", called |-> TRUE, r |-> r,
     out |-> IF Shown(r.value) THEN <<Line("Custom Token Generated!")>>
             ELSE <<Line("Token Generation Failed")>>]

\* The step of generate_custom_token from the yes/no gate to the next prompt
MintIfConfirmed(yes, outcome, mint) ==
    LET r == test_user_login_with_admin_sdk(dir, uid, outcome, mint) IN
    IF ~yes
    THEN [pc |-> "token_method", called |-> FALSE, r |-> r, out |-> <<>>]
    ELSE [pc |-> "token_another", called |-> TRUE, r |-> r,
          out |-> IF Shown(r.value) THEN <<Line("Custom Token Generated!")>>
                  ELSE <<Line("Token Generation Failed")>>]

\* generate_custom_token emptying the cached lists when the mint fails, as
\* load_users does when the listing fails
TokenConfirmDropsCache ==
    /\ pc = "token_confirm"
    /\ \E yes \in BOOLEAN : \E outcome \in GetOutcomes : \E mint \in MintOutcomes :
         LET s == MintIfConfirmed(yes, outcome, mint) IN
         /\ inp' = YesNo("confirm", yes)
         /\ pc' = s.pc
         /\ out' = s.out
         /\ calls' = IF s.called THEN s.r.calls ELSE <<>>
         /\ ret' = IF s.called
                   THEN Ret("test_user_login_with_admin_sdk", <<uid>>, s.r.value)
                   ELSE NoRet
         /\ confirmedUid' = IF yes THEN Str(uid) ELSE confirmedUid
         /\ uid' = IF s.called THEN uid ELSE <<>>
         /\ users' = IF s.called /\ ~s.r.value.success THEN <<>> ELSE users
         /\ filtered_users' = IF s.called /\ ~s.r.value.success THEN <<>> ELSE filtered_users
    /\ fetch' = NoFetch
    /\ UNCHANGED <<dir, new_password, email, password, okMutations>>

\* generate_custom_token: the yes/no gate and the mint
TokenConfirm ==
    /\ pc = "token_confirm"
    /\ \E yes \in BOOLEAN : \E outcome \in GetOutcomes : \E mint \in MintOutcomes :
         LET s == MintIfConfirmed(yes, outcome, mint) IN
         /\ inp' = YesNo("confirm", yes)
         /\ pc' = s.pc
         /\ out' = s.out
         /\ calls' = IF s.called THEN s.r.calls ELSE <<>>
         /\ ret' = IF s.called
                   THEN Ret("test_user_login_with_admin_sdk", <<uid>>, s.r.value)
                   ELSE NoRet
         /\ confirmedUid' = IF yes THEN Str(uid) ELSE confirmedUid
         /\ uid' = IF s.called THEN uid ELSE <<>>
    /\ fetch' = NoFetch
    /\ UNCHANGED <<dir, session, new_password, email, password, okMutations>>

\* "Do you want to generate another token?"
TokenAnother == Retry("token_another", "token_target", "token_method")

\* A text prompt of test_password_login: 'back' returns, anything else is
\* kept and the next prompt follows.
LoginPrompt(here, next, inputs, name) ==
    /\ pc = here
    /\ \E t \in inputs :
         /\ inp' = Text(name, t)
         /\ pc' = IF IsBack(t) THEN "token_method" ELSE next
         /\ email' = IF IsBack(t) THEN <<>> ELSE IF name = "email" THEN t ELSE email
         /\ password' = IF IsBack(t) THEN <<>> ELSE IF name = "password" THEN t ELSE password
    /\ calls' = <<>>
    /\ fetch' = NoFetch
    /\ out' = <<>>
    /\ ret' = NoRet
    /\ UNCHANGED <<dir, session, uid, new_password, confirmedUid, okMutations>>

LoginEmail == LoginPrompt("login_email", "login_password", EmailInputs, "email")
LoginPassword == LoginPrompt("login_password", "login_api_key", LoginPasswordInputs, "password")

\* The style tags of a rich markup text, in order of appearance.
Open(name) == [close |-> FALSE, name |-> name]
Close(name) == [close |-> TRUE, name |-> name]

\* rich.markup.render: an opening tag is pushed on the style stack, a closing
\* tag pops the topmost open tag of its name and raises MarkupError when
\* there is none.
RECURSIVE RenderFrom(_, _, _)
RenderFrom(tags, i, stack) ==
    IF i > Len(tags) THEN TRUE
    ELSE IF ~tags[i].close THEN RenderFrom(tags, i + 1, Append(stack, tags[i].name))
    ELSE LET open == {k \in DOMAIN stack : stack[k] = tags[i].name} IN
         IF open = {} THEN FALSE
         ELSE LET top == CHOOSE k \in open : \A j \in open : j <= k
              IN RenderFrom(tags, i + 1,
                            SubSeq(stack, 1, top - 1) \o SubSeq(stack, top + 1, Len(stack)))
Renders(tags) == RenderFrom(tags, 1, <<>>)

\* the panel of a successful sign-in
LoginSuccessMarkup ==
    << Open("bold green"), Close("bold green"),
       Open("bold cyan"), Close("bold cyan"),
       Open("bold green"), Close("bold green"),
       Open("bold blue"), Close("bold cyan"),
       Open("bold blue"), Close("bold blue") >>

\* the panel of a failed sign-in
LoginFailedMarkup ==
    << Open("bold red"), Close("bold red"),
       Open("bold cyan"), Close("bold cyan"),
       Open("bold red"), Close("bold red"),
       Open("bold yellow"), Close("bold yellow"),
       Open("dim"), Close("dim"), Open("dim"), Close("dim"),
       Open("dim"), Close("dim"), Open("dim"), Close("dim") >>

\* console.print of either panel: whether it is shown or raises
LoginSuccessRenders == Renders(LoginSuccessMarkup)
LoginFailedRenders == Renders(LoginFailedMarkup)

\* test_password_login: the API key prompt, the sign-in call and the result
\* panel; a panel whose markup does not render raises out of run()
LoginApiKey ==
    /\ pc = "login_api_key"
    /\ \E k \in ApiKeyInputs : \E project_id \in ProjectIds : \E http \in HttpAnswers :
         LET r == test_login_with_api_key(email, password, k, project_id, http) IN
         /\ inp' = Text("api_key", k)
         /\ IF IsBack(k)
            THEN /\ pc' = "token_method"
                 /\ email' = <<>>
                 /\ password' = <<>>
                 /\ calls' = <<>>
                 /\ out' = <<>>
                 /\ ret' = NoRet
            ELSE LET rendered == IF Shown(r.value) THEN LoginSuccessRenders
                                  ELSE LoginFailedRenders
                 IN
                 /\ pc' = IF rendered THEN "login_another" ELSE "crashed"
                 /\ UNCHANGED <<email, password>>
                 /\ calls' = r.calls
                 /\ out' = IF ~rendered THEN <<>>
                           ELSE IF Shown(r.value) THEN <<Line("Login Successful!")>>
                           ELSE <<Line("Login Failed")>>
                 /\ ret' = Ret("test_login_with_api_key", <<email, password, k>>, r.value)
    /\ fetch' = NoFetch
    /\ UNCHANGED <<dir, session, uid, new_password, confirmedUid, okMutations>>

\* "Do you want to test another login?"
LoginAnother ==
    /\ pc = "login_another"
    /\ \E yes \in BOOLEAN :
         /\ inp' = YesNo("retry", yes)
         /\ pc' = IF yes THEN "login_email" ELSE "token_method"
    /\ email' = <<>>
    /\ password' = <<>>
    /\ calls' = <<>>
    /\ fetch' = NoFetch
    /\ out' = <<>>
    /\ ret' = NoRet
    /\ UNCHANGED <<dir, session, uid, new_password, confirmedUid, okMutations>>

\* the prompts asked with Confirm.ask
YesNoPrompts ==
    {"pw_confirm", "name_confirm", "token_confirm",
     "pw_retry", "name_retry", "token_another", "login_another"}
\* answers Confirm.ask does not take for y or n
InvalidAnswers == {back, <<"B","A","C","K">>, <<>>}

\* Confirm.ask given anything but y or n: it prints its validation message
\* and asks the same question again
AskAgain ==
    /\ pc \in YesNoPrompts
    /\ \E t \in InvalidAnswers : inp' = Text("yes_no", t)
    /\ out' = <<Line("Please enter Y or N")>>
    /\ calls' = <<>>
    /\ fetch' = NoFetch
    /\ ret' = NoRet
    /\ UNCHANGED <<dir, session, pc, cliLocals, confirmedUid, okMutations>>

Next ==
    \/ Start
    \/ ChooseSearch
    \/ ChooseRefresh
    \/ ChooseView
    \/ ChoosePassword
    \/ ChooseName
    \/ ChooseTokens
    \/ ChooseShowAll
    \/ ChooseExit
    \/ PressEnter
    \/ SearchUsers
    \/ ViewUserDetails
    \/ PwTarget
    \/ PwConfirm
    \/ PwNew
    \/ PwConfirmPassword
    \/ PwRetry
    \/ NameTarget
    \/ NameConfirm
    \/ NameNew
    \/ NameRetry
    \/ TokenMethod
    \/ TokenTarget
    \/ TokenConfirm
    \/ TokenAnother
    \/ LoginEmail
    \/ LoginPassword
    \/ LoginApiKey
    \/ LoginAnother
    \/ AskAgain

Spec == Init /\ [][Next]_vars

-----------------------------------------------------------------------------
(* show_password_strength called directly *)

MaxPasswordLen == 13
\* the characters a test password is filled with, by the classes they cover
Fillings ==
    { <<" ">>, <<"a">>, <<"Z">>, <<"0">>, <<"?">>, <<"A","a">>, <<"a","1">>,
      <<"A","!">>, <<"A","a","1">>, <<"a","1","_">>, <<"A","a","1","!">> }
Fill(n, chars) == [i \in 1..n |-> chars[((i - 1) % Len(chars)) + 1]]
StrengthInputs ==
    {Fill(n, chars) : n \in 0..MaxPasswordLen, chars \in Fillings}
    \cup {<<"a","b","c">>, <<"A","b","c","1","2","3","4","5","!">>}

ShowPasswordStrength ==
    /\ \E pw \in StrengthInputs :
         /\ inp' = Text("new_password", pw)
         /\ out' = <<StrengthPanel(pw)>>
    /\ UNCHANGED <<dir, session, pc, cliLocals, confirmedUid, okMutations, calls, fetch, ret>>

StrengthNext == ShowPasswordStrength
StrengthSpec == Init /\ [][StrengthNext]_vars

-----------------------------------------------------------------------------
(* FirebaseUserService called directly, method by method *)

ServiceUids == {U1, U3, UnknownUid}
ServiceNames == {<<" ","Z">>, <<>>}
Reverse(s) == [i \in 1..Len(s) |-> s[Len(s) + 1 - i]]
ServiceLists ==
    LET lists == {AppendPage(<<>>, SubSeq(InitialDirectory, a, b)) : a \in 1..2, b \in 1..3}
    IN lists \cup {Reverse(l) : l \in lists} \cup {l \o l : l \in lists}
ServiceQueries == Queries \cup QueriesTyped \cup {<<" ", "\t">>, <<"\n">>, <<"@","X">>, <<"N","A">>}

\* the part of the state a direct call to the service leaves alone
ServiceFrame == UNCHANGED <<session, pc, cliLocals, confirmedUid, okMutations, inp>>

SvcGetAllUsers ==
    /\ \E pages \in Paginations(dir) : \E failAt \in 0..Len(pages) :
         LET r == get_all_users(pages, failAt) IN
         /\ ret' = Ret("get_all_users", <<>>, r)
         /\ fetch' = Served(Session, pages, failAt, r)
         /\ calls' = PageCalls(r)
         /\ out' = <<>>
    /\ UNCHANGED dir
    /\ ServiceFrame

SvcSearchUsers ==
    /\ \E query \in ServiceQueries : \E us \in ServiceLists :
         ret' = Ret("search_users", <<query, us>>, search_users(query, us))
    /\ calls' = <<>>
    /\ fetch' = NoFetch
    /\ out' = <<>>
    /\ UNCHANGED dir
    /\ ServiceFrame

SvcUpdateUserPassword ==
    /\ \E u \in ServiceUids : \E pw \in PasswordTyped : \E outcome \in UpdateOutcomes :
         LET r == update_user_password(dir, u, pw, outcome) IN
         /\ ret' = Ret("update_user_password", <<u, pw>>, r.value) @@ [raised |-> r.raised]
         /\ dir' = r.dir
         /\ calls' = r.calls
         /\ out' = [i \in DOMAIN r.printed |-> Line(r.printed[i])]
    /\ fetch' = NoFetch
    /\ ServiceFrame

SvcUpdateUserDisplayName ==
    /\ \E u \in ServiceUids : \E n \in ServiceNames : \E outcome \in UpdateOutcomes :
         LET r == update_user_display_name(dir, u, n, outcome) IN
         /\ ret' = Ret("update_user_display_name", <<u, n>>, r.value) @@ [raised |-> r.raised]
         /\ dir' = r.dir
         /\ calls' = r.calls
         /\ out' = [i \in DOMAIN r.printed |-> Line(r.printed[i])]
    /\ fetch' = NoFetch
    /\ ServiceFrame

SvcGetUserByUid ==
    /\ \E u \in ServiceUids : \E outcome \in GetOutcomes :
         LET r == get_user_by_uid(dir, u, outcome) IN
         /\ ret' = Ret("get_user_by_uid", <<u>>, r.value)
         /\ calls' = r.calls
         /\ out' = [i \in DOMAIN r.printed |-> Line(r.printed[i])]
    /\ fetch' = NoFetch
    /\ UNCHANGED dir
    /\ ServiceFrame

SvcGenerateCustomToken ==
    /\ \E u \in ServiceUids : \E mint \in MintOutcomes :
         LET r == generate_custom_token(u, mint) IN
         /\ ret' = Ret("generate_custom_token", <<u>>, r.value)
         /\ calls' = r.calls
    /\ out' = <<>>
    /\ fetch' = NoFetch
    /\ UNCHANGED dir
    /\ ServiceFrame

SvcTestUserLoginWithAdminSdk ==
    /\ \E u \in ServiceUids : \E outcome \in GetOutcomes : \E mint \in MintOutcomes :
         LET r == test_user_login_with_admin_sdk(dir, u, outcome, mint) IN
         /\ ret' = Ret("test_user_login_with_admin_sdk", <<u>>, r.value)
         /\ calls' = r.calls
    /\ out' = <<>>
    /\ fetch' = NoFetch
    /\ UNCHANGED dir
    /\ ServiceFrame

SvcExchangeCustomToken ==
    /\ \E t \in TokenInputs : \E project_id \in ProjectIds : \E http \in HttpAnswers :
         LET r == exchange_custom_token_for_id_token(t, project_id, http) IN
         /\ ret' = Ret("exchange_custom_token_for_id_token", <<t>>, r.value)
         /\ calls' = r.calls
    /\ out' = <<>>
    /\ fetch' = NoFetch
    /\ UNCHANGED dir
    /\ ServiceFrame

SvcTestLoginWithApiKey ==
    /\ \E e \in {<<"a","l","@","x">>} : \E p \in {<<"p","w">>} : \E k \in ApiKeyInputs :
       \E project_id \in ProjectIds : \E http \in HttpAnswers :
         LET r == test_login_with_api_key(e, p, k, project_id, http) IN
         /\ ret' = Ret("test_login_with_api_key", <<e, p, k>>, r.value)
         /\ calls' = r.calls
    /\ out' = <<>>
    /\ fetch' = NoFetch
    /\ UNCHANGED dir
    /\ ServiceFrame

ServiceNext ==
    \/ SvcGetAllUsers
    \/ SvcSearchUsers
    \/ SvcUpdateUserPassword
    \/ SvcUpdateUserDisplayName
    \/ SvcGetUserByUid
    \/ SvcGenerateCustomToken
    \/ SvcTestUserLoginWithAdminSdk
    \/ SvcExchangeCustomToken
    \/ SvcTestLoginWithApiKey

ServiceSpec == Init /\ [][ServiceNext]_vars

-----------------------------------------------------------------------------
(* Properties *)

Listing(d) == [i \in 1..Len(d) |-> UserData(d[i])]
Failed(api) == \E i \in DOMAIN calls : calls[i].api = api /\ ~calls[i].ok
Printed(text) == \E i \in DOMAIN out : out[i].level = text

\* C1: get_all_users fails atomically: when the request for any page K
\* (list_users or a get_next_page) raises, the call raises and hands back
\* no record of pages 1..K-1; when no request raises it returns the whole
\* directory.
C1_FetchFailsAtomically ==
    ret.fn = "get_all_users" =>
        IF fetch.failAt # 0
        THEN ret.value.raised /\ ret.value.value = <<>>
        ELSE ~ret.value.raised /\ ret.value.value = Listing(dir)

C1_Witness ==
    /\ ret.fn = "get_all_users"
    /\ fetch.failAt >= 2
    /\ Flatten(SubSeq(fetch.pages, 1, fetch.failAt - 1)) # <<>>
    /\ ret.value.raised

\* C2: over N >= 1 pages of any sizes, get_all_users returns the pages'
\* records concatenated in page order, and calls get_next_page exactly N
\* times (the Nth call is the one that reports no further page).
C2_FetchConcatenatesPages ==
    (ret.fn = "get_all_users" /\ fetch.failAt = 0) =>
        /\ ret.value.value = Listing(Flatten(fetch.pages))
        /\ ret.value.advances = Len(fetch.pages)
        /\ ret.value.requests = Len(fetch.pages)

C2_Witness ==
    /\ ret.fn = "get_all_users"
    /\ fetch.failAt = 0
    /\ Len(fetch.pages) = 2
    /\ Len(fetch.pages[1]) = 1
    /\ Len(fetch.pages[2]) = 2
    /\ Len(ret.value.value) = 3

\* C3: after load_users, from any session: if the fetch succeeded, users is
\* the fetched sequence and filtered_users equals users; if it raised,
\* both are empty and the error is printed.
C3_LoadReplacesOrClears ==
    fetch.served =>
        IF ~fetch.result.raised
        THEN /\ users = fetch.result.value
             /\ filtered_users = users
             /\ Printed("Loaded users successfully!")
        ELSE /\ users = <<>>
             /\ filtered_users = <<>>
             /\ Printed("Error loading users: Failed to retrieve users")

C3_Witness ==
    /\ fetch.served
    /\ fetch.result.raised
    /\ fetch.before.users # <<>>
    /\ fetch.before.filtered_users # fetch.before.users
    /\ users = <<>>
    /\ pc = "continue"

\* a call to the identity provider that failed for transport/credential reasons
Unavailable == \E i \in DOMAIN calls : calls[i].answer = "unavailable"

ErrorShown ==
    \/ Printed("Error loading users: Failed to retrieve users")
    \/ Printed("Failed to update password!")
    \/ Printed("Failed to update display name!")
    \/ Printed("Token Generation Failed")

\* C4 as claimed: whenever a directory operation fails as unavailable, users
\* and filtered_users keep the values they had before the operation.
C4_UnavailableLeavesSession ==
    [][Unavailable' => UNCHANGED session]_vars

\* C4: when a call to the identity provider fails as unavailable, the error
\* is printed and control passes to a prompt; users and filtered_users are
\* unchanged, except that a failed listing during load_users leaves both
\* empty.
C4_UnavailableClearsOnlyOnLoad ==
    [][Unavailable' =>
         /\ ErrorShown'
         /\ pc' \in {"menu", "continue", "pw_retry", "name_retry", "token_another"}
         /\ IF fetch'.served
            THEN users' = <<>> /\ filtered_users' = <<>>
            ELSE UNCHANGED session]_vars

C4_Witness ==
    /\ Unavailable
    /\ Failed("update_user")
    /\ users # <<>>
    /\ filtered_users # users
    /\ pc = "name_retry"

LastPasswordCall == calls[1]
PasswordCalled ==
    calls # <<>> /\ calls[1].api = "update_user" /\ calls[1].field = "password"

\* C5: update_user_password reaches the provider only with a password of
\* length >= 8 that equals the confirmation entry; a short or unconfirmed
\* password (neither entry being the word 'back') makes no provider call,
\* changes nothing at the provider and leads to the "try again?" prompt.
C5_PasswordValidatedLocally ==
    [][/\ PasswordCalled' =>
            /\ Len(LastPasswordCall'.value) >= 8
            /\ LastPasswordCall'.value = inp'.text
            /\ inp'.prompt = "confirm_password"
       /\ ( /\ pc = "pw_confirm_password"
            /\ Lower(inp'.text) # back
            /\ (Len(new_password) < 8 \/ new_password # inp'.text) ) =>
            /\ calls' = <<>>
            /\ dir' = dir
            /\ pc' = "pw_retry"
            /\ \/ Printed("Passwords don't match! Please try again.")'
               \/ Printed("Password must be at least 8 characters long!")'
      ]_vars

C5_Witness ==
    /\ pc = "pw_retry"
    /\ inp.prompt = "confirm_password"
    /\ Len(new_password) = 7
    /\ inp.text = new_password
    /\ calls = <<>>

Mutating == {"update_user", "create_custom_token"}

\* C6: every update_user and create_custom_token call is made for the uid
\* the operator said yes to at the confirmation gate of the same invocation.
C6_MutationOnlyAfterYes ==
    \A i \in DOMAIN calls :
        calls[i].api \in Mutating => confirmedUid = Str(calls[i].uid)

C6_Witness ==
    /\ \E i \in DOMAIN calls : calls[i].api = "create_custom_token" /\ calls[i].uid = U2
    /\ confirmedUid = Str(U2)
    /\ pc = "token_another"

Gates == {"pw_confirm", "name_confirm", "token_confirm"}

\* C7: answering no at the confirmation gate of password update, name
\* update or token generation returns from the operation with no provider
\* call, the directory and the session unchanged.
C7_DeclineHasNoEffect ==
    [][(pc \in Gates /\ inp' = YesNo("confirm", FALSE)) =>
         /\ pc' = IF pc = "token_confirm" THEN "token_method" ELSE "continue"
         /\ calls' = <<>>
         /\ ~fetch'.served
         /\ UNCHANGED <<dir, session>>]_vars

C7_Witness ==
    /\ inp = YesNo("confirm", FALSE)
    /\ pc = "continue"
    /\ users # <<>>
    /\ confirmedUid = None

BackSpellings == {<<"b","a","c","k">>, <<"B","A","C","K">>, <<"B","a","c","k">>}
Targets == {"pw_target", "name_target", "view_target", "token_target"}

\* C8: 'back' in any letter case at the uid prompt of password update, name
\* update, user details or token generation returns from the operation
\* with no provider call, the directory and the session unchanged.
C8_BackAtTargetCancels ==
    [][(pc \in Targets /\ inp'.text \in BackSpellings) =>
         /\ pc' = IF pc = "token_target" THEN "token_method" ELSE "continue"
         /\ calls' = <<>>
         /\ ~fetch'.served
         /\ out' = <<>>
         /\ UNCHANGED <<dir, session>>]_vars

C8_Witness ==
    /\ inp = Text("uid", <<"B","a","c","k">>)
    /\ pc = "continue"
    /\ users # <<>>

IssuanceMethods ==
    {"generate_custom_token", "exchange_custom_token_for_id_token",
     "test_user_login_with_admin_sdk", "test_login_with_api_key"}

NameUpdated ==
    \E i \in DOMAIN calls :
        calls[i].api = "update_user" /\ calls[i].field = "display_name" /\ calls[i].ok
PasswordUpdated ==
    \E i \in DOMAIN calls :
        calls[i].api = "update_user" /\ calls[i].field = "password" /\ calls[i].ok

\* C10: a successful display-name update is followed in the same step by a
\* full load_users (users and filtered_users both become the listing just
\* fetched, or both empty if it raised); a successful password update makes
\* no listing call and leaves users and filtered_users as they were.
C10_RefreshAfterNameOnly ==
    [][/\ NameUpdated' =>
            /\ fetch'.served
            /\ Len(calls') >= 2 /\ calls'[2].api = "list_users"
            /\ IF fetch'.result.raised
               THEN users' = <<>> /\ filtered_users' = <<>>
               ELSE users' = Listing(dir') /\ filtered_users' = users'
            /\ pc' = "continue"
       /\ PasswordUpdated' =>
            /\ ~fetch'.served
            /\ Len(calls') = 1
            /\ UNCHANGED session
            /\ pc' = "continue"
      ]_vars

C10_Witness ==
    /\ NameUpdated
    /\ fetch.served
    /\ ~fetch.result.raised
    /\ fetch.before.filtered_users # fetch.before.users
    /\ users # fetch.before.users
    /\ filtered_users = users


-----------------------------------------------------------------------------
(* Filtering *)

\* the queries that are empty or made of whitespace only, spelled out
BlankQueries == {<<>>, <<" "," ">>, <<" ", "\t">>, <<"\n">>}

\* C11: a query that is empty or whitespace-only makes search_users return
\* the users it was given, the same records in the same order.
C11_BlankQueryIsIdentity ==
    (ret.fn = "search_users" /\ ret.args[1] \in BlankQueries) =>
        ret.value = ret.args[2]

C11_Witness ==
    /\ ret.fn = "search_users"
    /\ ret.args[1] = <<" ", "\t">>
    /\ Len(ret.args[2]) = 3
    /\ ret.value = ret.args[2]

\* the text of a field as the comparison sees it, and the query likewise
Folded(s) == [i \in DOMAIN s |-> LowerChar(s[i])]
Occurs(needle, hay) ==
    \E k \in 1..(Len(hay) + 1) :
        /\ k + Len(needle) - 1 <= Len(hay)
        /\ \A j \in 1..Len(needle) : hay[k + j - 1] = needle[j]
Hit(query, user) ==
    \/ Occurs(Folded(query), Folded(user.email))
    \/ Occurs(Folded(query), Folded(user.display_name))
Hits(query, us) == {i \in DOMAIN us : Hit(query, us[i])}
\* the k-th smallest member of a set of indices
Kth(S, k) == CHOOSE i \in S : Cardinality({j \in S : j <= i}) = k

\* C12: for a query that is not blank, search_users returns exactly the
\* records whose email or display name contains the lowercased query, case
\* ignored, one result per matching position and in the order of the input.
C12_FilterSelectsMatchesInOrder ==
    (ret.fn = "search_users" /\ ret.args[1] \notin BlankQueries) =>
        LET query == ret.args[1]
            us == ret.args[2]
            hits == Hits(query, us)
        IN /\ Len(ret.value) = Cardinality(hits)
           /\ \A k \in 1..Len(ret.value) : ret.value[k] = us[Kth(hits, k)]

\* "@X" is found in one email only, in another case
C12_Witness ==
    /\ ret.fn = "search_users"
    /\ ret.args[1] = <<"@","X">>
    /\ Len(ret.args[2]) = 3
    /\ ret.args[2][3].uid = U1
    /\ Len(ret.value) = 1
    /\ ret.value[1].uid = U1

-----------------------------------------------------------------------------
(* Existence before minting *)

\* C13: test_user_login_with_admin_sdk calls create_custom_token only as its
\* second provider call, after get_user has succeeded for the same uid in
\* the same invocation; for a uid the directory does not hold it returns a
\* failure carrying the provider's not-found answer and never calls
\* create_custom_token.
C13_MintOnlyAfterLookup ==
    ret.fn = "test_user_login_with_admin_sdk" =>
        LET u == ret.args[1] IN
        /\ \A i \in DOMAIN calls :
              calls[i].api = "create_custom_token" =>
                  /\ i = 2
                  /\ calls[1].api = "get_user"
                  /\ calls[1].ok
                  /\ calls[1].uid = u
                  /\ calls[2].uid = u
        /\ (\A i \in DOMAIN dir : dir[i].uid # u) =>
              /\ ~ret.value.success
              /\ ret.value.token = None
              /\ ret.value.error = Str(<<"Admin SDK login test failed: ", "not_found">>)
              /\ \A i \in DOMAIN calls : calls[i].api # "create_custom_token"
        /\ ret.value.success => Len(calls) = 2

C13_Witness ==
    /\ ret.fn = "test_user_login_with_admin_sdk"
    /\ ret.args[1] = UnknownUid
    /\ Len(dir) = 3
    /\ ~ret.value.success
    /\ Len(calls) = 1
    /\ calls[1].api = "get_user"
    /\ calls[1].answer = "not_found"

-----------------------------------------------------------------------------
(* Failures inside the session *)

\* a provider or endpoint call of the step failed, or the service reported
\* a failed sign-in
FailureSeen ==
    \/ \E i \in DOMAIN calls : ~calls[i].ok
    \/ ret.fn # "none" /\ ~ret.value.success
ErrorPresented == ErrorShown \/ Printed("Login Failed")
\* the prompts a failed step leaves the operator at
AfterFailure ==
    {"menu", "continue", "pw_retry", "name_retry", "token_another", "login_another"}
\* run() has returned, or an exception has left it
Ended == {"exited", "crashed"}
\* how many operator answers separate each of these prompts from the menu
MenuDistance ==
    [p \in AfterFailure \cup {"token_method"} |->
        CASE p = "menu" -> 0
          [] p = "continue" -> 1
          [] p \in {"pw_retry", "name_retry", "token_method"} -> 2
          [] OTHER -> 3]
Closer ==
    /\ Next
    /\ pc' \in DOMAIN MenuDistance
    /\ MenuDistance[pc'] < MenuDistance[pc]

\* C14: once run() has started, a failure of a provider or endpoint call
\* never ends the loop: the step that saw the failure prints an error and
\* leaves the console at the menu or at a prompt from which the operator
\* gets back to the menu, and the loop ends only by choice 8 at the menu.
C14_FailuresKeepTheLoop ==
    /\ [][/\ pc' \in Ended => (pc = "menu" /\ inp' = Text("menu", <<"8">>))
          /\ FailureSeen' => (ErrorPresented' /\ pc' \in AfterFailure)]_vars
    /\ []((pc \in DOMAIN MenuDistance /\ pc # "menu") => ENABLED Closer)

-----------------------------------------------------------------------------
(* Network failures and rejections *)

RestMethods == {"test_login_with_api_key", "exchange_custom_token_for_id_token"}
\* the report has the form the methods give to an exception of the request
NetworkForm(error) ==
    /\ error # None
    /\ error.s[1] \in {"Login test failed: ", "Token exchange failed: "}

\* C15: in the password sign-in and in the custom-token exchange, a request
\* that failed at the network level is reported in a form that no non-200
\* response is reported in: the two are never given the same error outcome.
C15_NetworkFailureDistinct ==
    (ret.fn \in RestMethods /\ calls # <<>>) =>
        LET http == calls[1].http IN
        /\ http.raises => NetworkForm(ret.value.error)
        /\ (~http.raises /\ http.status_code # 200) => ~NetworkForm(ret.value.error)

-----------------------------------------------------------------------------
(* The updates report by their return value *)

\* C16: update_user_password and update_user_display_name never raise:
\* whatever the provider does they return, True when the provider accepted
\* the update and False when it raised, the uid being unknown included.
C16_UpdatesReturnBoolean ==
    ret.fn \in {"update_user_password", "update_user_display_name"} =>
        /\ ~ret.raised
        /\ ret.value \in BOOLEAN
        /\ Len(calls) = 1
        /\ ret.value = (calls[1].answer = "ok")

C16_Witness ==
    /\ ret.fn = "update_user_password"
    /\ calls[1].answer = "unavailable"
    /\ ret.value = FALSE
    /\ ~ret.raised

-----------------------------------------------------------------------------
(* Looking a user up *)

\* C17: get_user_by_uid reports a uid the directory does not hold and a
\* provider that could not be reached as two different failures: the
\* answer it gives for 'not found' is never its answer to a transport
\* failure.
C17_LookupFailuresDistinct ==
    (ret.fn = "get_user_by_uid" /\ calls[1].answer = "unavailable") =>
        ret.value # get_user_by_uid(dir, UnknownUid, "not_found").value

-----------------------------------------------------------------------------
(* The strength analysis is advice *)

AnalysisShown == \E i \in DOMAIN out : out[i].panel = "Password Analysis"

-----------------------------------------------------------------------------
(* The strength score *)

CriteriaNames == {"length 8", "length 12", "upper", "lower", "digit", "special"}
Meets(pw, c) ==
    CASE c = "length 8" -> Cardinality(DOMAIN pw) >= 8
      [] c = "length 12" -> Cardinality(DOMAIN pw) >= 12
      [] c = "upper" -> \E i \in DOMAIN pw : \E k \in 1..26 : pw[i] = UpperChars[k]
      [] c = "lower" -> \E i \in DOMAIN pw : \E k \in 1..26 : pw[i] = LowerChars[k]
      [] c = "digit" -> \E i \in DOMAIN pw : \E k \in 1..10 : pw[i] = DigitChars[k]
      [] c = "special" -> \E i \in DOMAIN pw : pw[i] \in SpecialChars
CriteriaMet(pw) == {c \in CriteriaNames : Meets(pw, c)}
Bucket(score) ==
    IF score \div 2 = 0 THEN "Weak" ELSE IF score \div 2 = 1 THEN "Medium" ELSE "Strong"
Analysed(pw) == inp.prompt = "new_password" /\ inp.text = pw /\ AnalysisShown
ScoreIsCount ==
    (inp.prompt = "new_password" /\ AnalysisShown) =>
        /\ out[1].score = Cardinality(CriteriaMet(inp.text))
        /\ out[1].score \in 0..6
        /\ out[1].level = Bucket(out[1].score)
AbcIsWeak ==
    Analysed(<<"a","b","c">>) =>
        (CriteriaMet(inp.text) = {"lower"} /\ out[1].score = 1 /\ out[1].level = "Weak")

\* C19 as stated: the score is the number of the six criteria met, the
\* bucket follows score // 2, "abc" meets only the lowercase criterion and
\* is Weak, and "Abc12345!" meets all six criteria and is Strong.
C19_AllSixForAbc12345 ==
    /\ ScoreIsCount
    /\ AbcIsWeak
    /\ Analysed(<<"A","b","c","1","2","3","4","5","!">>) =>
          (CriteriaMet(inp.text) = CriteriaNames /\ out[1].score = 6 /\ out[1].level = "Strong")

\* C19, amended: the score is the number of the six criteria met (0..6),
\* the bucket is Weak, Medium or Strong for score // 2 = 0, 1, >= 2; "abc"
\* meets only the lowercase criterion and is Weak; "Abc12345!", nine
\* characters long, meets every criterion but length >= 12, scores 5 and is
\* Strong.
C19_ScoreCountsCriteria ==
    /\ ScoreIsCount
    /\ AbcIsWeak
    /\ Analysed(<<"A","b","c","1","2","3","4","5","!">>) =>
          /\ CriteriaMet(inp.text) = CriteriaNames \ {"length 12"}
          /\ out[1].score = 5
          /\ out[1].level = "Strong"

C19_Witness ==
    /\ Analysed(<<"A","b","c","1","2","3","4","5","!">>)
    /\ out[1].score = 5
    /\ out[1].level = "Strong"

-----------------------------------------------------------------------------
(* An unknown uid asks again *)

\* the uid prompts of password update, name update and token generation,
\* each with the confirmation prompt a known uid leads to
ConfirmOf ==
    [p \in {"pw_target", "name_target", "token_target"} |->
        CASE p = "pw_target" -> "pw_confirm"
          [] p = "name_target" -> "name_confirm"
          [] OTHER -> "token_confirm"]
Known(u) == \E i \in DOMAIN users : users[i].uid = u

\* C20: at the uid prompt of password update, name update and token
\* generation, a uid that is not in the loaded users prints 'User not
\* found!' and asks for the uid again in the same operation, with no
\* provider call; the prompt is left only by a uid that is found, which
\* leads to the confirmation, or by the cancel keyword.
C20_UnknownUidAsksAgain ==
    [][(pc \in DOMAIN ConfirmOf) =>
         ( /\ (inp'.text \notin BackSpellings /\ ~Known(inp'.text)) =>
                 ( /\ pc' = pc
                   /\ Printed("User not found!")'
                   /\ calls' = <<>>
                   /\ ~fetch'.served
                   /\ UNCHANGED <<dir, session>> )
           /\ pc' # pc =>
                 ( \/ Known(inp'.text) /\ pc' = ConfirmOf[pc]
                   \/ inp'.text \in BackSpellings ) )]_vars

C20_Witness ==
    /\ pc = "name_target"
    /\ inp = Text("uid", UnknownUid)
    /\ Len(users) = 3
    /\ Printed("User not found!")
    /\ calls = <<>>

-----------------------------------------------------------------------------
(* Retrying a failed update *)

RetryPrompts == {"pw_retry", "name_retry"}
UpdateFailed == \E i \in DOMAIN calls : calls[i].api = "update_user" /\ ~calls[i].ok

\* C21: a failed update_user call always leads to the yes/no retry
\* question; answering no returns from the operation, answering yes asks
\* for the new value (or the confirmation) again for the same uid, not for
\* the uid again; and no step at the retry question calls the provider.
C21_RetryKeepsTarget ==
    [][/\ UpdateFailed' => pc' \in RetryPrompts
       /\ (pc \in RetryPrompts) =>
             ( /\ calls' = <<>>
               /\ inp' = YesNo("retry", FALSE) => pc' = "continue"
               /\ inp' = YesNo("retry", TRUE) =>
                     ( /\ pc' \in {"pw_new", "name_new", "name_confirm"}
                       /\ uid' = uid )
               /\ inp'.prompt # "retry" => pc' = pc )]_vars

-----------------------------------------------------------------------------
(* The cancel keyword *)

\* where the operator is asked for a text, and where for yes or no, inside
\* password update, name update, token generation and the login test
TextPrompts ==
    {"pw_target", "pw_new", "pw_confirm_password", "name_target", "name_new",
     "token_target", "login_email", "login_password", "login_api_key"}
OperationPrompts == TextPrompts \cup YesNoPrompts
\* where a return from the operation leaves the console
CancelledFrom(p) ==
    IF p \in {"pw_target", "pw_confirm", "pw_new", "pw_confirm_password", "pw_retry",
               "name_target", "name_confirm", "name_new", "name_retry"}
    THEN "continue"
    ELSE "token_method"

\* C22: at every prompt of password update, name update and token
\* generation (uid, confirmation, new value, retry question), entering the
\* cancel keyword returns from the operation at once and no provider call
\* is made.
C22_KeywordCancelsEverywhere ==
    [][(pc \in OperationPrompts /\ inp'.text \in BackSpellings) =>
         /\ pc' = CancelledFrom(pc)
         /\ calls' = <<>>
         /\ ~fetch'.served
         /\ UNCHANGED <<dir, session>>]_vars

-----------------------------------------------------------------------------
(* The new display name *)

\* the step sends value to the provider as the display name of the uid in
\* hand, which is the uid the operator confirmed
NameSent(value) ==
    /\ calls' # <<>>
    /\ calls'[1].api = "update_user"
    /\ calls'[1].field = "display_name"
    /\ calls'[1].uid = uid
    /\ calls'[1].value = value
    /\ confirmedUid = Str(uid)
\* v is t without the whitespace at its two ends
TrimOf(t, v) ==
    \E a \in 0..Len(t) : \E b \in a..Len(t) :
        /\ v = [i \in 1..(b - a) |-> t[a + i]]
        /\ \A i \in (1..a) \cup ((b + 1)..Len(t)) : t[i] \in {" ", "\t", "\n"}
        /\ v # <<>> => (v[1] \notin {" ", "\t", "\n"} /\ v[Len(v)] \notin {" ", "\t", "\n"})

KeywordTyped(t) == \E k \in BackSpellings : TrimOf(t, k)

\* C23 as stated: every name typed at the new-name prompt that is not
\* empty and not the cancel keyword goes to update_user as it was typed,
\* untrimmed and unvalidated, for the confirmed uid.
C23_NamePassedAsTyped ==
    [][(pc = "name_new" /\ inp'.typed # <<>> /\ ~KeywordTyped(inp'.typed)) =>
         NameSent(inp'.typed)]_vars

\* C23, amended: every name typed at the new-name prompt that is not the
\* cancel keyword goes to update_user for the confirmed uid with no
\* validation, as the prompt hands it over: without the whitespace around
\* it, and otherwise unchanged.
C23_NamePassedAsPrompted ==
    [][(pc = "name_new" /\ ~KeywordTyped(inp'.typed)) =>
         \E v \in {inp'.text} : TrimOf(inp'.typed, v) /\ NameSent(v)]_vars

C23_Witness ==
    /\ inp.prompt = "new_name"
    /\ inp.typed = <<" ","Z">>
    /\ calls # <<>>
    /\ calls[1].api = "update_user"
    /\ calls[1].value = <<"Z">>
    /\ calls[1].ok

\* C30: an empty entry at the new-name prompt is not refused by the
\* console: it is sent to update_user as the new display name of the
\* confirmed uid, and of all entries only the cancel keyword keeps the
\* call from being made.
C30_EmptyNameIsSubmitted ==
    [][(pc = "name_new") =>
         /\ inp'.text = <<>> => NameSent(<<>>)
         /\ calls' = <<>> <=> Lower(inp'.text) = back]_vars

C30_Witness ==
    /\ inp.prompt = "new_name"
    /\ inp.typed = <<>>
    /\ calls # <<>>
    /\ calls[1].api = "update_user"
    /\ calls[1].field = "display_name"
    /\ calls[1].value = <<>>

-----------------------------------------------------------------------------
(* Token issuance and the cached lists *)

\* the prompts of test_user_login, generate_custom_token and
\* test_password_login
TokenPrompts ==
    {"token_method", "token_target", "token_confirm", "token_another",
     "login_email", "login_password", "login_api_key", "login_another"}
ListingCalled == \E i \in DOMAIN calls : calls[i].api \in {"list_users", "get_next_page"}

\* C24: no step of custom-token generation or of the password login test,
\* whatever its outcome, changes users or filtered_users or asks the
\* provider for the user listing.
C24_TokensLeaveSession ==
    [][(pc \in TokenPrompts) =>
         /\ users' = users
         /\ filtered_users' = filtered_users
         /\ ~fetch'.served
         /\ ~ListingCalled']_vars

\* a failed mint and a failed sign-in, the three users still listed
C24_Witness ==
    /\ pc = "token_another"
    /\ ret.fn = "test_user_login_with_admin_sdk"
    /\ ~ret.value.success
    /\ Len(users) = 3
    /\ Len(filtered_users) = 1

-----------------------------------------------------------------------------
(* The filtered view *)

\* sub is what is left of whole when the positions outside some set of
\* positions are struck out
IsSubsequence(sub, whole) ==
    \E S \in SUBSET DOMAIN whole :
        /\ Len(sub) = Cardinality(S)
        /\ \A k \in 1..Len(sub) : sub[k] = whole[Kth(S, k)]

\* C25: in every state the console can reach, filtered_users is an
\* order-preserving subsequence of the current users: it holds no record
\* that users does not hold.
C25_FilteredWithinUsers == IsSubsequence(filtered_users, users)

\* the view after a search that keeps the last user only
C25_Witness ==
    /\ inp.prompt = "query"
    /\ Len(users) = 3
    /\ Len(filtered_users) = 1
    /\ filtered_users[1] = users[3]

-----------------------------------------------------------------------------
(* Loops end with the operator *)

InOperation == pc \in OperationPrompts
Declined == inp' \in {YesNo("confirm", FALSE), YesNo("retry", FALSE)}
KeywordEntered == pc \in TextPrompts /\ inp'.text \in BackSpellings
\* every step inside an operation answers one prompt
AnswersOnePrompt == [][InOperation => inp'.prompt # "none"]_vars
\* the name under which each text prompt's entry is recorded
EntryName ==
    [p \in TextPrompts |->
        CASE p \in {"pw_target", "name_target", "token_target"} -> "uid"
          [] p = "pw_new" -> "new_password"
          [] p = "pw_confirm_password" -> "confirm_password"
          [] p = "name_new" -> "new_name"
          [] p = "login_email" -> "email"
          [] p = "login_password" -> "password"
          [] OTHER -> "api_key"]
\* what an operator who gives up at prompt p enters: n at a yes/no
\* question, the keyword at a text prompt
GivingUp(p) ==
    IF p \in YesNoPrompts THEN {YesNo("confirm", FALSE), YesNo("retry", FALSE)}
    ELSE IF p = "name_new"
    THEN {Text("new_name", PromptAsk(t)) @@ [typed |-> t] :
             t \in {x \in NameTyped : PromptAsk(x) \in BackSpellings}}
    ELSE {Text(EntryName[p], k) : k \in BackSpellings}
\* a step of an operation that takes such an entry
Cancel ==
    /\ pc \in OperationPrompts
    /\ inp' \in GivingUp(pc)
    /\ \/ PwTarget \/ PwConfirm \/ PwNew \/ PwConfirmPassword \/ PwRetry
       \/ NameTarget \/ NameConfirm \/ NameNew \/ NameRetry
       \/ TokenTarget \/ TokenConfirm \/ TokenAnother
       \/ LoginEmail \/ LoginPassword \/ LoginApiKey \/ LoginAnother
\* whatever has failed before, the next prompt lets the operator give up
CanGiveUp == [](InOperation => ENABLED Cancel)

-----------------------------------------------------------------------------
(* The target is looked up in the cached users *)

\* the prompts of an operation whose target has been found
AfterTarget ==
    {"pw_confirm", "pw_new", "pw_confirm_password", "pw_retry",
     "name_confirm", "name_new", "token_confirm"}

\* C27: the uid prompt of password update, name update and token generation
\* looks the uid up in users only: it calls no provider, a uid of users
\* leads to the confirmation whether or not the search view shows it, and
\* every update_user and create_custom_token call is made for a uid that is
\* in users when it is entered and still when the call is made; while
\* users is empty no such call is made.
C27_TargetsComeFromUsers ==
    /\ [][(pc \in DOMAIN ConfirmOf) =>
            /\ calls' = <<>>
            /\ Known(inp'.text) => (pc' = ConfirmOf[pc] /\ uid' = inp'.text)
            /\ pc' = ConfirmOf[pc] => Known(inp'.text)]_vars
    /\ [](pc \in AfterTarget => Known(uid))
    /\ [][\A i \in DOMAIN calls' : calls'[i].api \in Mutating => Known(calls'[i].uid)]_vars
    /\ [][users = <<>> => \A i \in DOMAIN calls' : calls'[i].api \notin Mutating]_vars

\* a password has been set for a user the search view does not show
C27_Witness ==
    /\ calls # <<>>
    /\ calls[1].api = "update_user"
    /\ calls[1].field = "password"
    /\ calls[1].ok
    /\ Found(users, calls[1].uid)
    /\ filtered_users # <<>>
    /\ ~Found(filtered_users, calls[1].uid)

-----------------------------------------------------------------------------
(* A name update whose reload fails *)

ReloadFailed == fetch.served /\ fetch.result.raised

\* C28: when the name update is accepted and the load_users() after it
\* fails, the provider keeps the new name for that uid (and changes no
\* other record), users and filtered_users are both empty, the success
\* message is printed (followed by the load error), and the operation
\* returns to the main loop with no retry question.
C28_FailedReloadAfterUpdate ==
    [][(pc = "name_new" /\ NameUpdated' /\ ReloadFailed') =>
         /\ \A i \in DOMAIN dir' :
               dir'[i] = IF dir[i].uid = uid
                         THEN [dir[i] EXCEPT !.display_name = inp'.text]
                         ELSE dir[i]
         /\ \E i \in DOMAIN dir' : dir'[i].uid = uid
         /\ DOMAIN dir' = DOMAIN dir
         /\ users' = <<>>
         /\ filtered_users' = <<>>
         /\ out'[1] = Line("Display name updated successfully!")
         /\ Printed("Error loading users: Failed to retrieve users")'
         /\ pc' = "continue"]_vars

\* the session held three users and a narrower view before the update
C28_Witness ==
    /\ inp.prompt = "new_name"
    /\ NameUpdated
    /\ ReloadFailed
    /\ Len(fetch.before.users) = 3
    /\ Len(fetch.before.filtered_users) = 1
    /\ users = <<>>
    /\ \E i \in DOMAIN dir : dir[i].uid = calls[1].uid /\ dir[i].display_name = <<"Z">>
    /\ pc = "continue"

-----------------------------------------------------------------------------
(* One successful update per invocation *)

UpdatePrompts ==
    {"pw_target", "pw_confirm", "pw_new", "pw_confirm_password", "pw_retry",
     "name_target", "name_confirm", "name_new", "name_retry"}
UpdateSucceeded == PasswordUpdated \/ NameUpdated
UpdateCalls == {i \in DOMAIN calls : calls[i].api = "update_user"}

\* C29: an invocation of password update or name update makes at most one
\* successful update_user call: while the operation is still asking, every
\* update call it has made has failed; a step makes at most one update call,
\* and the step whose call succeeds returns to the main loop.
C29_OneSuccessPerInvocation ==
    /\ [](okMutations <= 1)
    /\ [](pc \in UpdatePrompts => (okMutations = 0 /\ ~UpdateSucceeded))
    /\ [](Cardinality(UpdateCalls) <= 1)
    /\ [][(pc \in UpdatePrompts /\ UpdateSucceeded') =>
            (pc' = "continue" /\ okMutations' = 1)]_vars

\* the invocation's successful password update, just made
C29_Witness ==
    /\ PasswordUpdated
    /\ okMutations = 1
    /\ pc = "continue"
    /\ inp.prompt = "confirm_password"

====
